---- MODULE Spec2Model ----
(***************************************************************************)
(* Streaming metrics of tensorflow/contrib/metrics/python/ops/metric_ops.py *)
(*                                                                         *)
(* A metric function builds local variables (accumulators) and two graph   *)
(* tensors, value and update_op.  The state machine below is one           *)
(* constructed metric together with the session runs that fetch one of     *)
(* the two tensors; the runs of the session do not overlap.  A run         *)
(* executes the ops its fetch depends on, each once, in any order that     *)
(* respects the data inputs and the control inputs the source gives each   *)
(* op.  An op that takes a variable as input reads the variable when the   *)
(* op executes, so within a run it sees an assign_add of that variable or  *)
(* not, as the order has it.                                               *)
(*                                                                         *)
(* Spec is that machine.  ThreadSpec lets the runs of two threads overlap  *)
(* op by op, GraphSpec and AucGraphSpec call the metric function several   *)
(* times on one graph and run the metrics it returns, ShapeSpec is the     *)
(* call of a metric function, or of _remove_squeezable_dimensions alone,   *)
(* on tensors of given static shapes and types, StreamSpec is two updates  *)
(* of a new metric with the batches fed kept.                              *)
(***************************************************************************)
EXTENDS Integers, Sequences, FiniteSets, Bags, TLC

VARIABLES metric, acc, last, nupd, seen, thr, begun, local_variables, instances, built, ran,
          adjusted, fed

\* The state of the runs that overlap, and of the graph that holds several metrics.
threadvars == <<thr, begun>>

graphvars == <<local_variables, instances, built, ran, adjusted, fed>>

vars == <<metric, acc, last, nupd, seen, threadvars, graphvars>>

-----------------------------------------------------------------------------
(* Bounds of the model. *)

\* Largest number of elements of one batch.
MaxBatch == 2
\* Largest number of update_op runs started.
MaxUpdates == 2

-----------------------------------------------------------------------------
(* Float tensors hold exact rationals [n, d]; d = 0 is the result of a     *)
(* division by zero (inf or nan), as math_ops.div produces for floats.     *)

RECURSIVE GCD(_, _)
GCD(a, b) == IF b = 0 THEN a ELSE GCD(b, a % b)

Abs(x) == IF x < 0 THEN -x ELSE x

Sign(x) == IF x < 0 THEN -1 ELSE IF x > 0 THEN 1 ELSE 0

Rat(n, d) ==
  LET g == GCD(Abs(n), Abs(d))
      s == IF d < 0 THEN -1 ELSE 1
  IN  [n |-> s * (n \div g), d |-> s * (d \div g)]

IsFinite(x) == x.d # 0

\* math_ops.to_float of an integer tensor element, and of a boolean one.
to_float(x) == Rat(x, 1)

bool_to_float(b) == IF b THEN Rat(1, 1) ELSE Rat(0, 1)

add(x, y) ==
  LET g == GCD(x.d, y.d)
  IN  Rat(x.n * (y.d \div g) + y.n * (x.d \div g), (x.d \div g) * y.d)

sub(x, y) == add(x, [n |-> -y.n, d |-> y.d])

mul(x, y) == Rat(x.n * y.n, x.d * y.d)

div(x, y) == IF y.n = 0 THEN [n |-> Sign(x.n), d |-> 0] ELSE Rat(x.n * y.d, x.d * y.n)

abs(x) == [n |-> Abs(x.n), d |-> x.d]

square(x) == mul(x, x)

greater(x, y) == x.n * y.d > y.n * x.d

less(x, y) == x.n * y.d < y.n * x.d

equal(x, y) == x = y

logical_not(x) == ~x

select(c, t, e) == IF c THEN t ELSE e

RECURSIVE reduce_sum(_)
reduce_sum(x) == IF Len(x) = 0 THEN Rat(0, 1) ELSE add(x[1], reduce_sum(Tail(x)))

\* reduce_sum of a tensor of whole numbers.
RECURSIVE IntSum(_)
IntSum(x) == IF Len(x) = 0 THEN 0 ELSE x[1] + IntSum(Tail(x))

\* An elementwise op over one tensor, and over two tensors of the same shape.
Map1(f(_), x) == [i \in DOMAIN x |-> f(x[i])]

Map2(f(_, _), x, y) == [i \in DOMAIN x |-> f(x[i], y[i])]

size(x) == Len(x)

-----------------------------------------------------------------------------
(* The metric functions that delegate to streaming_mean. *)

MeanFns == {"streaming_mean", "streaming_accuracy", "streaming_mean_absolute_error",
            "streaming_mean_relative_error", "streaming_mean_squared_error",
            "streaming_root_mean_squared_error", "streaming_mean_cosine_distance",
            "streaming_percentage_less", "streaming_recall_at_k"}

\* The mean metrics whose optional argument is ignore_mask rather than weights.
MaskedMeanFns == {"streaming_percentage_less", "streaming_recall_at_k"}

\* Construction arguments other than the tensors.
threshold == 2
k == 1

\* Elements of the input tensors of the mean metrics.
Values == {1, 2}
Weights == {-1, 0, 1}
DelegateWeights == {0, 2}
Binary == {0, 1}
Errors == {0, 2}
Rows == {<<1, 0>>, <<0, 1>>}
Classes == {0, 1}
Normalizers == {1, 2}

Tensor(S, n) == [1..n -> S]

NoTensor == <<>>

\* The tensors one run is fed, for a metric constructed with (opt) or without
\* its optional weights / ignore_mask argument.
MeanBatchesOfSize(fn, opt, n) ==
  LET W == IF opt THEN Tensor(DelegateWeights, n) ELSE {NoTensor}
      M == IF opt THEN Tensor(BOOLEAN, n) ELSE {NoTensor}
  IN  CASE fn = "streaming_mean" ->
             [values : Tensor(Values, n),
              weights : IF opt THEN Tensor(Weights, n) ELSE {NoTensor}]
        [] fn = "streaming_percentage_less" ->
             [values : Tensor(Values, n), ignore_mask : M]
        [] fn = "streaming_recall_at_k" ->
             [predictions : Tensor(Rows, n), labels : Tensor(Classes, n), ignore_mask : M]
        [] fn = "streaming_mean_cosine_distance" ->
             [predictions : Tensor(Rows, n), labels : Tensor(Rows, n), weights : W]
        [] fn = "streaming_mean_relative_error" ->
             [predictions : Tensor(Binary, n), labels : Tensor({1}, n),
              normalizer : Tensor(Normalizers, n), weights : W]
        [] fn = "streaming_accuracy" ->
             [predictions : Tensor(Binary, n), labels : Tensor(Binary, n), weights : W]
        [] OTHER ->
             [predictions : Tensor(Errors, n), labels : Tensor(Errors, n), weights : W]

\* nn.in_top_k: the target class is in the top k when fewer than k classes
\* score strictly higher.
in_top_k(row, target, kk) ==
  Cardinality({c \in DOMAIN row : row[c] > row[target + 1]}) < kk

\* Faulty variant: the coordinates are subtracted, not multiplied.
RECURSIVE dot_of_differences(_, _)
dot_of_differences(x, y) ==
  IF Len(x) = 0 THEN Rat(0, 1)
  ELSE add(sub(to_float(x[1]), to_float(y[1])), dot_of_differences(Tail(x), Tail(y)))

RECURSIVE dot(_, _)
dot(x, y) == IF Len(x) = 0 THEN Rat(0, 1)
             ELSE add(mul(to_float(x[1]), to_float(y[1])), dot(Tail(x), Tail(y)))

\* Faulty variant: a value equal to the threshold counts as below it.
is_below_threshold_or_equal(v) == bool_to_float(v <= threshold)

\* math_ops.to_float(math_ops.less(values, threshold)), one element.
is_below_threshold(v) == bool_to_float(v < threshold)

\* The values tensor each metric function hands to streaming_mean.
MeanValues(fn, b) ==
  CASE fn = "streaming_mean" -> Map1(to_float, b.values)
    [] fn = "streaming_accuracy" ->
         [i \in DOMAIN b.predictions |-> bool_to_float(b.predictions[i] = b.labels[i])]
    [] fn = "streaming_mean_absolute_error" ->
         [i \in DOMAIN b.predictions |->
            abs(sub(to_float(b.predictions[i]), to_float(b.labels[i])))]
    [] fn = "streaming_mean_relative_error" ->
         [i \in DOMAIN b.predictions |->
            div(abs(sub(to_float(b.labels[i]), to_float(b.predictions[i]))),
                to_float(b.normalizer[i]))]
    [] fn \in {"streaming_mean_squared_error", "streaming_root_mean_squared_error"} ->
         [i \in DOMAIN b.predictions |->
            square(sub(to_float(b.labels[i]), to_float(b.predictions[i])))]
    [] fn = "streaming_mean_cosine_distance" ->
         [i \in DOMAIN b.predictions |-> dot(b.predictions[i], b.labels[i])]
    [] fn = "streaming_percentage_less" ->
         [i \in DOMAIN b.values |-> is_below_threshold(b.values[i])]
    [] fn = "streaming_recall_at_k" ->
         [i \in DOMAIN b.predictions |->
            bool_to_float(in_top_k(b.predictions[i], b.labels[i], k))]

\* Faulty variant: the mask is used as the weights without negation.
_mask_to_weights_as_is(mask) == mask

_mask_to_weights(mask) == Map1(logical_not, mask)

\* The weights tensor each metric function hands to streaming_mean (opt holds).
MeanWeights(fn, b) ==
  IF fn \in MaskedMeanFns THEN Map1(bool_to_float, _mask_to_weights(b.ignore_mask))
  ELSE Map1(to_float, b.weights)

\* Faulty variant: count grows by the number of elements whatever the weights.
num_values_unweighted(values, weights, weighted) == to_float(size(values))

\* streaming_mean: the operands of the two assign_add ops.
num_values(values, weights, weighted) ==
  IF weighted THEN reduce_sum(weights) ELSE to_float(size(values))

\* Faulty variant: total grows by the plain sum of the values.
streaming_mean_increments_plain_total(values, weights, weighted) ==
  [total |-> reduce_sum(values), count |-> num_values(values, weights, weighted)]

streaming_mean_increments(values, weights, weighted) ==
  LET v == IF weighted THEN Map2(mul, values, weights) ELSE values
  IN  [total |-> reduce_sum(v), count |-> num_values(values, weights, weighted)]

-----------------------------------------------------------------------------
(* streaming_precision and streaming_recall: the confusion counters. *)

PRFns == {"streaming_precision", "streaming_recall"}

PRBatchesOfSize(opt, n) ==
  [predictions : Tensor(Binary, n), labels : Tensor(Binary, n),
   ignore_mask : IF opt THEN Tensor(BOOLEAN, n) ELSE {NoTensor}]

\* Faulty variant: ignore_mask is not applied.
_count_condition_unmasked(values, ignore_mask, masked) ==
  reduce_sum(Map1(bool_to_float, values))

\* _count_condition: the operand of assign_add(count, ...).
_count_condition(values, ignore_mask, masked) ==
  LET v == IF masked
           THEN [i \in DOMAIN values |-> select(ignore_mask[i], FALSE, values[i])]
           ELSE values
  IN  reduce_sum(Map1(bool_to_float, v))

is_true_positive(b) ==
  [i \in DOMAIN b.predictions |-> b.labels[i] = 1 /\ b.predictions[i] = 1]

\* Faulty variant: the labels are tested for 1.
is_false_positive_label_1(b) ==
  [i \in DOMAIN b.predictions |-> b.labels[i] = 1 /\ b.predictions[i] = 1]

is_false_positive(b) ==
  [i \in DOMAIN b.predictions |-> b.labels[i] = 0 /\ b.predictions[i] = 1]

\* Faulty variant: the predictions are tested for 1.
is_false_negative_prediction_1(b) ==
  [i \in DOMAIN b.predictions |-> b.labels[i] = 1 /\ b.predictions[i] = 1]

is_false_negative(b) ==
  [i \in DOMAIN b.predictions |-> b.labels[i] = 1 /\ b.predictions[i] = 0]

_streaming_true_positives(b, masked) ==
  _count_condition(is_true_positive(b), b.ignore_mask, masked)

_streaming_false_positives(b, masked) ==
  _count_condition(is_false_positive(b), b.ignore_mask, masked)

_streaming_false_negatives(b, masked) ==
  _count_condition(is_false_negative(b), b.ignore_mask, masked)

-----------------------------------------------------------------------------
(* streaming_auc: thresholds and the four counter vectors.  The cells of   *)
(* the counter vectors are sums of 0.0/1.0 indicators: whole numbers, kept *)
(* as integers.                                                            *)

\* The num_thresholds argument.
NumThresholds == 3

\* Faulty variant: the cut points start at 0 and end at 1.
kepsilon_zero == Rat(0, 1)

kepsilon == Rat(1, 10000000)

Scores == {Rat(0, 1), Rat(1, 2), Rat(1, 1)}

AucBatchesOfSize(opt, n) ==
  [predictions : Tensor(Scores, n), labels : Tensor(Binary, n),
   ignore_mask : IF opt THEN Tensor(BOOLEAN, n) ELSE {NoTensor}]

\* Faulty variant: the points run from stop down to start.
linspace_descending(start, stop, num) ==
  [i \in 1..num |-> sub(stop, div(mul(to_float(i - 1), sub(stop, start)), to_float(num - 1)))]

\* math_ops.linspace(start, stop, num), cell i (from 1).
linspace(start, stop, num) ==
  [i \in 1..num |-> add(start, div(mul(to_float(i - 1), sub(stop, start)), to_float(num - 1)))]

thresholds == linspace(sub(Rat(0, 1), kepsilon), add(Rat(1, 1), kepsilon), NumThresholds)

\* Faulty variant: the predictions are thresholded with greater_equal.
pred_tiled_greater_equal(b) ==
  [j \in 1..NumThresholds |->
     [i \in DOMAIN b.predictions |->
        IF ~less(b.predictions[i], thresholds[j]) THEN 1 ELSE 0]]

\* pred_tiled[j][i]: prediction i thresholded at cut point j, cast to int32.
pred_tiled(b) ==
  [j \in 1..NumThresholds |->
     [i \in DOMAIN b.predictions |->
        IF greater(b.predictions[i], thresholds[j]) THEN 1 ELSE 0]]

\* Faulty variant: the ignore_mask is not applied.
auc_increment_unmasked(b, masked, label, prediction) ==
  LET pt == pred_tiled(b)
      ind(j, i) == IF b.labels[i] = label /\ pt[j][i] = prediction THEN 1 ELSE 0
  IN  [j \in 1..NumThresholds |-> IntSum([i \in DOMAIN b.predictions |-> ind(j, i)])]

\* One of the four indicator matrices, masked, summed along axis 1.
auc_increment(b, masked, label, prediction) ==
  LET pt == pred_tiled(b)
      ind(j, i) == IF b.labels[i] = label /\ pt[j][i] = prediction THEN 1 ELSE 0
  IN  [j \in 1..NumThresholds |->
         IntSum([i \in DOMAIN b.predictions |->
                   IF masked THEN select(b.ignore_mask[i], 0, ind(j, i)) ELSE ind(j, i)])]

streaming_auc_increments(b, masked) ==
  [true_positives |-> auc_increment(b, masked, 1, 1),
   false_negatives |-> auc_increment(b, masked, 1, 0),
   true_negatives |-> auc_increment(b, masked, 0, 0),
   false_positives |-> auc_increment(b, masked, 0, 1)]

-----------------------------------------------------------------------------
(* The numbers of the AUC formula.  epsilon = 1.0e-6 is kept as the         *)
(* indeterminate: a number is num(epsilon) / (c * PRODUCT (a + epsilon))    *)
(* over the bag roots of whole numbers a, with num a polynomial (sequence  *)
(* of integer coefficients, constant term first).                          *)

Max(x, y) == IF x > y THEN x ELSE y

RECURSIVE PNorm(_)
PNorm(p) == IF Len(p) > 0 /\ p[Len(p)] = 0 THEN PNorm(SubSeq(p, 1, Len(p) - 1)) ELSE p

Coef(p, i) == IF i \in DOMAIN p THEN p[i] ELSE 0

PAdd(p, q) == PNorm([i \in 1..Max(Len(p), Len(q)) |-> Coef(p, i) + Coef(q, i)])

PScale(c, p) == PNorm([i \in DOMAIN p |-> c * p[i]])

PMul(p, q) ==
  IF Len(p) = 0 \/ Len(q) = 0 THEN <<>>
  ELSE [m \in 1..(Len(p) + Len(q) - 1) |->
          IntSum([i \in DOMAIN p |-> p[i] * Coef(q, m - i + 1)])]

\* a + epsilon
PlusEpsilon(a) == <<a, 1>>

RECURSIVE Expand(_)
Expand(roots) ==
  IF roots = EmptyBag THEN <<1>>
  ELSE LET a == CHOOSE x \in BagToSet(roots) : TRUE
       IN  PMul(PlusEpsilon(a), Expand(roots (-) SetToBag({a})))

LCM(x, y) == (x * y) \div GCD(x, y)

BagMax(x, y) == x (+) (y (-) x)

\* The numerators of x and y over their common denominator.
Scaled(x, y) ==
  LET L == BagMax(x.roots, y.roots)
      c == LCM(x.c, y.c)
  IN  [x |-> PScale(c \div x.c, PMul(x.num, Expand(L (-) x.roots))),
       y |-> PScale(c \div y.c, PMul(y.num, Expand(L (-) y.roots))),
       c |-> c, roots |-> L]

FAdd(x, y) ==
  LET s == Scaled(x, y) IN [num |-> PAdd(s.x, s.y), c |-> s.c, roots |-> s.roots]

FSub(x, y) ==
  LET s == Scaled(x, y) IN [num |-> PAdd(s.x, PScale(-1, s.y)), c |-> s.c, roots |-> s.roots]

FMul(x, y) == [num |-> PMul(x.num, y.num), c |-> x.c * y.c, roots |-> x.roots (+) y.roots]

FHalf(x) == [x EXCEPT !.c = 2 * @]

FEq(x, y) == LET s == Scaled(x, y) IN s.x = s.y

FZero == [num |-> <<>>, c |-> 1, roots |-> EmptyBag]

\* math_ops.div of a numerator polynomial by a + epsilon.
FDiv(num, a) == [num |-> PNorm(num), c |-> 1, roots |-> SetToBag({a})]

\* false_positives + true_negatives + epsilon, as the whole numbers a of a + epsilon.
fpr_denominator(a) ==
  [i \in 1..NumThresholds |-> a.false_positives[i] + a.true_negatives[i]]

\* math_ops.div(false_positives, false_positives + true_negatives + epsilon)
false_positive_rate(a, denominator) ==
  [i \in 1..NumThresholds |-> FDiv(<<a.false_positives[i]>>, denominator[i])]

\* true_positives + epsilon
recall_numerator(a) == [i \in 1..NumThresholds |-> PlusEpsilon(a.true_positives[i])]

\* true_positives + false_negatives + epsilon, as the whole numbers a of a + epsilon.
recall_denominator(a) ==
  [i \in 1..NumThresholds |-> a.true_positives[i] + a.false_negatives[i]]

\* math_ops.div(true_positives + epsilon, true_positives + false_negatives + epsilon)
recall(numerator, denominator) ==
  [i \in 1..NumThresholds |-> FDiv(numerator[i], denominator[i])]

RECURSIVE FSum(_)
FSum(x) == IF Len(x) = 0 THEN FZero ELSE FAdd(x[1], FSum(Tail(x)))

\* Faulty variant: rectangles, the recall of the left cut point for the mean of
\* the two.
compute_auc_rectangles(fpr, rec) ==
  FSum([i \in 1..(NumThresholds - 1) |-> FMul(FSub(fpr[i], fpr[i + 1]), rec[i])])

\* reduce_sum((fpr[:n-1] - fpr[1:]) * ((recall[:n-1] + recall[1:]) / 2.))
compute_auc(fpr, rec) ==
  FSum([i \in 1..(NumThresholds - 1) |->
          FMul(FSub(fpr[i], fpr[i + 1]), FHalf(FAdd(rec[i], rec[i + 1])))])

-----------------------------------------------------------------------------
(* The constructed metric, its local variables and its graph. *)

AllFns == MeanFns \cup PRFns \cup {"streaming_auc"}

Metrics == [fn : AllFns, opt : BOOLEAN]

\* The local variables a metric function creates.
Accumulators(fn) ==
  CASE fn \in MeanFns -> {"total", "count"}
    [] fn = "streaming_precision" -> {"true_positives", "false_positives"}
    [] fn = "streaming_recall" -> {"true_positives", "false_negatives"}
    [] fn = "streaming_auc" ->
         {"true_positives", "false_negatives", "true_negatives", "false_positives"}

\* _create_local: a variable initialised to zeros(shape); shape [] for the
\* scalars, [num_thresholds] for the counter vectors of streaming_auc.
_create_local(fn) ==
  IF fn = "streaming_auc" THEN [i \in 1..NumThresholds |-> 0] ELSE Rat(0, 1)

BatchesOfSize(m, n) ==
  CASE m.fn \in MeanFns -> MeanBatchesOfSize(m.fn, m.opt, n)
    [] m.fn \in PRFns -> PRBatchesOfSize(m.opt, n)
    [] m.fn = "streaming_auc" -> AucBatchesOfSize(m.opt, n)

\* The operand of each assign_add op of the metric for the tensors fed.
Increments(m, b) ==
  CASE m.fn \in MeanFns ->
         streaming_mean_increments(MeanValues(m.fn, b),
                                   IF m.opt THEN MeanWeights(m.fn, b) ELSE NoTensor,
                                   m.opt)
    [] m.fn = "streaming_precision" ->
         [true_positives |-> _streaming_true_positives(b, m.opt),
          false_positives |-> _streaming_false_positives(b, m.opt)]
    [] m.fn = "streaming_recall" ->
         [true_positives |-> _streaming_true_positives(b, m.opt),
          false_negatives |-> _streaming_false_negatives(b, m.opt)]
    [] m.fn = "streaming_auc" -> streaming_auc_increments(b, m.opt)

\* The ops named in the control_dependencies block that update_op is built in.
UpdateOpControlInputs(fn) == Accumulators(fn)

\* Faulty variant: the value tensor is built inside the control_dependencies block.
ValueInsideControlDependencies(fn) == Accumulators(fn)

\* The ops named in a control_dependencies block around the value tensor: none.
ValueControlInputs(fn) == {}

ControlInputs(fn, op) ==
  CASE op = "update_op" -> UpdateOpControlInputs(fn)
    [] op = "value" -> ValueControlInputs(fn)
    [] OTHER -> {}

\* The tensors of streaming_auc that read the counter vectors.
RateOps == {"fpr_denominator", "false_positive_rate", "recall_numerator",
            "recall_denominator"}

\* The graph tensors an op takes as inputs, variables aside.
DataInputs(fn, op) ==
  CASE fn = "streaming_auc" /\ op \in {"value", "update_op"} ->
         {"false_positive_rate", "recall_numerator", "recall_denominator"}
    [] fn = "streaming_auc" /\ op = "false_positive_rate" -> {"fpr_denominator"}
    [] OTHER -> {}

Inputs(fn, op) == ControlInputs(fn, op) \cup DataInputs(fn, op)

\* The ops a run of the fetch executes: the fetch and all it depends on.
Needed(fn, fetch) ==
  {fetch} \cup Inputs(fn, fetch) \cup UNION {Inputs(fn, o) : o \in Inputs(fn, fetch)}

-----------------------------------------------------------------------------
(* Finalization formulas. *)

\* Faulty variant: the guard tests count against zero instead of count > 0.
compute_mean_nonzero(total, count) ==
  select(equal(count, Rat(0, 1)), Rat(0, 1), div(total, count))

\* Faulty variant: the division is not guarded.
compute_mean_unguarded(total, count) == div(total, count)

compute_mean(total, count) == select(greater(count, Rat(0, 1)), div(total, count), Rat(0, 1))

compute_precision(true_positives, false_positives) ==
  select(greater(add(true_positives, false_positives), Rat(0, 1)),
         div(true_positives, add(true_positives, false_positives)),
         Rat(0, 1))

compute_recall(true_positives, false_negatives) ==
  select(greater(add(true_positives, false_negatives), Rat(0, 1)),
         div(true_positives, add(true_positives, false_negatives)),
         Rat(0, 1))

\* math_ops.sqrt of a finalized mean: kept symbolic, sqrt(x) = sqrt(y) iff x = y.
sqrt(x) == [sqrt_of |-> x]

\* Faulty variant: the root is not taken.
MeanResult_without_sqrt(fn, mean) ==
  CASE fn = "streaming_mean_cosine_distance" -> sub(Rat(1, 1), mean)
    [] OTHER -> mean

\* What the metric function does to the mean streaming_mean returns.
MeanResult(fn, mean) ==
  CASE fn = "streaming_root_mean_squared_error" -> sqrt(mean)
    [] fn = "streaming_mean_cosine_distance" -> sub(Rat(1, 1), mean)
    [] OTHER -> mean

\* The variables an op takes as inputs.  array_ops.identity (the read
\* snapshot of a variable, value_tensor of _count_condition) forwards the
\* buffer of the variable without copying it and is no op of its own here:
\* the first op that computes with the tensor is the op that reads.
Reads(fn, op) ==
  CASE fn = "streaming_auc" /\ op = "fpr_denominator" -> {"false_positives", "true_negatives"}
    [] fn = "streaming_auc" /\ op = "false_positive_rate" -> {"false_positives"}
    [] fn = "streaming_auc" /\ op = "recall_numerator" -> {"true_positives"}
    [] fn = "streaming_auc" /\ op = "recall_denominator" -> {"true_positives", "false_negatives"}
    [] fn # "streaming_auc" /\ op \in {"value", "update_op"} -> Accumulators(fn)
    [] OTHER -> {}

\* The number the value tensor or update_op evaluates to, where r[op] holds
\* the variables the op takes as inputs as the op read them.
Finalize(fn, fetch, r) ==
  CASE fn = "streaming_auc" ->
         compute_auc(false_positive_rate(r["false_positive_rate"],
                                         fpr_denominator(r["fpr_denominator"])),
                     recall(recall_numerator(r["recall_numerator"]),
                            recall_denominator(r["recall_denominator"])))
    [] fn \in MeanFns -> MeanResult(fn, compute_mean(r[fetch].total, r[fetch].count))
    [] fn = "streaming_precision" ->
         compute_precision(r[fetch].true_positives, r[fetch].false_positives)
    [] fn = "streaming_recall" ->
         compute_recall(r[fetch].true_positives, r[fetch].false_negatives)

-----------------------------------------------------------------------------
(* History kept for the properties: what the documentation says one batch   *)
(* adds to each accumulator, counted position by position on the raw batch. *)

Unignored(m, b, i) == ~m.opt \/ ~b.ignore_mask[i]

CountWhere(m, b, label, prediction) ==
  Cardinality({i \in DOMAIN b.predictions :
                 /\ Unignored(m, b, i)
                 /\ b.labels[i] = label
                 /\ b.predictions[i] = prediction})

\* Cut point j of streaming_auc as the docstring gives it: num_thresholds
\* points evenly spaced from 0 - 1e-7 to 1 + 1e-7, here as the fraction
\* CutNumerator(j) / CutDenominator.
CutDenominator == 10000000 * (NumThresholds - 1)

CutNumerator(j) == (j - 1) * (10000000 + 2) - (NumThresholds - 1)

\* Whether score x lies above cut point j.
Above(x, j) == x.n * CutDenominator > CutNumerator(j) * x.d

\* The unignored positions of the batch with the label whose score lies
\* above cut point j, or does not.
CountAt(m, b, j, label, above) ==
  Cardinality({i \in DOMAIN b.predictions :
                 /\ Unignored(m, b, i)
                 /\ b.labels[i] = label
                 /\ Above(b.predictions[i], j) = above})

\* The tally of one batch; negative counts the positions with a negative
\* value or weight, ignored the ignored positions predicted 1.
\* The indicator of position i of a batch of a mask-taking mean metric.
Hit(m, b, i) ==
  IF m.fn = "streaming_percentage_less" THEN b.values[i] < threshold
  ELSE in_top_k(b.predictions[i], b.labels[i], k)

\* The positions of a batch of a mask-taking mean metric.
Positions(m, b) ==
  IF m.fn = "streaming_percentage_less" THEN DOMAIN b.values ELSE DOMAIN b.predictions

\* The weight of position i of a batch: 1 when the metric has no weights.
WeightAt(m, b, i) == IF m.opt THEN b.weights[i] ELSE 1

\* sum over the coordinates c of x[c] * y[c]
Product(x, y) == IntSum([c \in DOMAIN x |-> x[c] * y[c]])

Tally(m, b) ==
  CASE m.fn = "streaming_mean" ->
         [total |-> IF m.opt THEN IntSum([i \in DOMAIN b.values |-> b.values[i] * b.weights[i]])
                    ELSE IntSum(b.values),
          count |-> IF m.opt THEN IntSum(b.weights) ELSE Len(b.values),
          negative |-> IF m.opt
                       THEN Cardinality({i \in DOMAIN b.values :
                                           b.weights[i] < 0 \/ b.values[i] < 0})
                       ELSE Cardinality({i \in DOMAIN b.values : b.values[i] < 0})]
    [] m.fn \in PRFns ->
         [true_positives |-> CountWhere(m, b, 1, 1),
          false_positives |-> CountWhere(m, b, 0, 1),
          false_negatives |-> CountWhere(m, b, 1, 0),
          ignored |-> Cardinality({i \in DOMAIN b.predictions :
                                     ~Unignored(m, b, i) /\ b.predictions[i] = 1})]
    [] m.fn = "streaming_auc" ->
         [counted |-> Cardinality({i \in DOMAIN b.predictions : Unignored(m, b, i)}),
          ignored |-> Cardinality({i \in DOMAIN b.predictions : ~Unignored(m, b, i)}),
          positives |-> Cardinality({i \in DOMAIN b.predictions :
                                       Unignored(m, b, i) /\ b.labels[i] = 1}),
          negatives |-> Cardinality({i \in DOMAIN b.predictions :
                                       Unignored(m, b, i) /\ b.labels[i] = 0}),
          true_positives |-> [j \in 1..NumThresholds |-> CountAt(m, b, j, 1, TRUE)],
          false_negatives |-> [j \in 1..NumThresholds |-> CountAt(m, b, j, 1, FALSE)],
          true_negatives |-> [j \in 1..NumThresholds |-> CountAt(m, b, j, 0, FALSE)],
          false_positives |-> [j \in 1..NumThresholds |-> CountAt(m, b, j, 0, TRUE)]]
    [] m.fn = "streaming_mean_cosine_distance" ->
         [products |-> IntSum([i \in DOMAIN b.predictions |->
                                 WeightAt(m, b, i) * Product(b.predictions[i], b.labels[i])]),
          distances |-> IntSum([i \in DOMAIN b.predictions |->
                                  WeightAt(m, b, i)
                                    * (1 - Product(b.predictions[i], b.labels[i]))]),
          count |-> IntSum([i \in DOMAIN b.predictions |-> WeightAt(m, b, i)])]
    [] m.fn \in {"streaming_mean_squared_error", "streaming_root_mean_squared_error"} ->
         [squares |-> IntSum([i \in DOMAIN b.predictions |->
                                WeightAt(m, b, i) * (b.labels[i] - b.predictions[i])
                                  * (b.labels[i] - b.predictions[i])]),
          count |-> IntSum([i \in DOMAIN b.predictions |-> WeightAt(m, b, i)])]
    [] m.fn \in MaskedMeanFns ->
         [hits |-> Cardinality({i \in Positions(m, b) : Unignored(m, b, i) /\ Hit(m, b, i)}),
          counted |-> Cardinality({i \in Positions(m, b) : Unignored(m, b, i)}),
          masked |-> Cardinality({i \in Positions(m, b) : ~Unignored(m, b, i)}),
          masked_hits |-> Cardinality({i \in Positions(m, b) :
                                         ~Unignored(m, b, i) /\ Hit(m, b, i)}),
          size |-> Cardinality(Positions(m, b))]
    [] m.fn = "streaming_accuracy" ->
         [matches |-> IntSum([i \in DOMAIN b.predictions |->
                                IF b.predictions[i] = b.labels[i]
                                THEN WeightAt(m, b, i) ELSE 0]),
          positions |-> IntSum([i \in DOMAIN b.predictions |-> WeightAt(m, b, i)])]
    [] OTHER -> [none |-> 0]

NoTally(m) ==
  CASE m.fn = "streaming_mean" -> [total |-> 0, count |-> 0, negative |-> 0]
    [] m.fn \in PRFns ->
         [true_positives |-> 0, false_positives |-> 0, false_negatives |-> 0, ignored |-> 0]
    [] m.fn = "streaming_auc" -> [counted |-> 0, positives |-> 0, negatives |-> 0]
    [] m.fn = "streaming_mean_cosine_distance" ->
         [products |-> 0, distances |-> 0, count |-> 0]
    [] m.fn \in {"streaming_mean_squared_error", "streaming_root_mean_squared_error"} ->
         [squares |-> 0, count |-> 0]
    [] m.fn \in MaskedMeanFns -> [hits |-> 0, counted |-> 0, masked |-> 0, masked_hits |-> 0, size |-> 0]
    [] m.fn = "streaming_accuracy" -> [matches |-> 0, positions |-> 0]
    [] OTHER -> [none |-> 0]

AddTally(x, y) == [f \in DOMAIN x |-> x[f] + y[f]]

-----------------------------------------------------------------------------
(* Construction.  A metric function is called with tensors whose static    *)
(* shapes and types are known when the graph is built; it creates its      *)
(* local variables and checks shapes and types in the order of the source, *)
(* and the first check that fails raises and ends the call.                *)

\* A dimension whose size is not known when the graph is built.
None == 0

\* Static shapes of the tensors passed in, and the types of a mask.
Shapes == {<<None>>, <<2>>, <<3>>, <<2, 1>>, <<2, 2>>}

Dtypes == {"bool", "float32"}

\* Faulty variant: shapes of the same rank are taken as compatible.
is_compatible_with_rank_only(s1, s2) == Len(s1) = Len(s2)

\* TensorShape.assert_is_compatible_with: the same rank, and the same size
\* in every dimension that both shapes know.
is_compatible_with(s1, s2) ==
  /\ Len(s1) = Len(s2)
  /\ \A i \in DOMAIN s1 : s1[i] = None \/ s2[i] = None \/ s1[i] = s2[i]

\* array_ops.squeeze(x, [-1]): raises when the last dimension is known not to
\* have size 1.
squeeze(s) == [ok |-> s[Len(s)] \in {1, None}, shape |-> SubSeq(s, 1, Len(s) - 1)]

\* The static shape of a tensor whose rank is not known (ndims is None).
unknown_shape == <<-1>>

\* Faulty variant: the tensor of higher rank is squeezed whatever the gap.
_remove_squeezable_dimensions_any_gap(predictions, labels) ==
  IF labels = unknown_shape \/ predictions = unknown_shape
  THEN [ok |-> TRUE, predictions |-> predictions, labels |-> labels]
  ELSE IF Len(labels) > Len(predictions)
  THEN [ok |-> squeeze(labels).ok, predictions |-> predictions,
        labels |-> squeeze(labels).shape]
  ELSE IF Len(predictions) > Len(labels)
  THEN [ok |-> squeeze(predictions).ok, predictions |-> squeeze(predictions).shape,
        labels |-> labels]
  ELSE [ok |-> TRUE, predictions |-> predictions, labels |-> labels]

_remove_squeezable_dimensions(predictions, labels) ==
  IF labels = unknown_shape \/ predictions = unknown_shape
  THEN [ok |-> TRUE, predictions |-> predictions, labels |-> labels]
  ELSE IF Len(labels) = Len(predictions) + 1
  THEN [ok |-> squeeze(labels).ok, predictions |-> predictions,
        labels |-> squeeze(labels).shape]
  ELSE IF Len(predictions) = Len(labels) + 1
  THEN [ok |-> squeeze(predictions).ok, predictions |-> squeeze(predictions).shape,
        labels |-> labels]
  ELSE [ok |-> TRUE, predictions |-> predictions, labels |-> labels]

\* The static shape of an element-wise op of two tensors: the shapes are
\* aligned at the last dimension and a dimension of size 1 is stretched.
Pad(s, rank) ==
  [i \in 1..rank |-> IF i <= rank - Len(s) THEN 1 ELSE s[i - (rank - Len(s))]]

Broadcast(s1, s2) ==
  LET rank == IF Len(s1) > Len(s2) THEN Len(s1) ELSE Len(s2)
      a == Pad(s1, rank)
      b == Pad(s2, rank)
  IN  [ok |-> \A i \in 1..rank : a[i] = 1 \/ b[i] = 1 \/ a[i] = None \/ b[i] = None
                                   \/ a[i] = b[i],
       shape |-> [i \in 1..rank |-> IF a[i] \in {1, None} THEN b[i] ELSE a[i]]]

\* The outcome of a call: whether it raised, the local variables it had
\* created by then (in order), and the pairs of shapes it combined element
\* by element.
Raised(created, combined) ==
  [status |-> "raised", created |-> created, combined |-> combined]

Done(created, combined) ==
  [status |-> "ok", created |-> created, combined |-> combined]

\* First this call, then (unless it raised) the next.
Then(first, next) ==
  IF first.status = "raised" THEN first
  ELSE [status |-> next.status, created |-> first.created \o next.created,
        combined |-> first.combined \cup next.combined]

\* A check of the source that creates nothing.
Check(ok) == IF ok THEN Done(<<>>, {}) ELSE Raised(<<>>, {})

\* streaming_mean(values, weights): both variables are created before the
\* shape of the weights is checked.
streaming_mean_build(values, weights, weighted) ==
  Then(Done(<<"total", "count">>, {}),
       IF weighted
       THEN Then(Check(is_compatible_with(values, weights)),
                 Done(<<>>, {<<values, weights>>}))
       ELSE Done(<<>>, {}))

\* _mask_to_weights(mask)
_mask_to_weights_build(mask_dtype, masked) == Check(masked => mask_dtype = "bool")

\* _count_condition(values, ignore_mask) under the scope of one counter.
_count_condition_build(counter, values, dtype, mask, mask_dtype, masked) ==
  Then(Check(dtype = "bool"),
  Then(Done(<<counter>>, {}),
       IF masked
       THEN Then(Check(is_compatible_with(values, mask)),
            Then(Check(mask_dtype = "bool"),
                 Done(<<>>, {<<mask, values>>})))
       ELSE Done(<<>>, {})))

\* _streaming_true_positives and its two siblings: the indicator is a
\* logical_and of two comparisons, a bool tensor.
_streaming_counter_build(counter, predictions, labels, mask, mask_dtype, masked) ==
  Then(Check(is_compatible_with(predictions, labels)),
  Then(Done(<<>>, {<<labels, predictions>>}),
       _count_condition_build(counter, Broadcast(labels, predictions).shape, "bool",
                              mask, mask_dtype, masked)))

\* The squeeze and the shape check the metrics of predictions and labels
\* begin with.
AlignedBuild(predictions, labels) ==
  LET r == _remove_squeezable_dimensions(predictions, labels)
  IN  Then(Check(r.ok), Check(is_compatible_with(r.predictions, r.labels)))

\* The metrics that compare predictions and labels element by element and
\* hand the result to streaming_mean.
ErrorFns == {"streaming_accuracy", "streaming_mean_absolute_error",
             "streaming_mean_squared_error", "streaming_root_mean_squared_error"}

ErrorBuild(a, weighted) ==
  LET r == _remove_squeezable_dimensions(a.predictions, a.labels)
  IN  Then(AlignedBuild(a.predictions, a.labels),
      Then(Done(<<>>, {<<r.predictions, r.labels>>}),
           streaming_mean_build(Broadcast(r.predictions, r.labels).shape, a.weights, weighted)))

\* streaming_mean_relative_error: predictions are aligned with labels and
\* then again with normalizer; labels stay as the first alignment left them.
RelativeErrorBuild(a, weighted) ==
  LET r1 == _remove_squeezable_dimensions(a.predictions, a.labels)
      r2 == _remove_squeezable_dimensions(r1.predictions, a.normalizer)
      diff == Broadcast(r1.labels, r2.predictions)
      quot == Broadcast(diff.shape, r2.labels)
  IN  Then(AlignedBuild(a.predictions, a.labels),
      Then(AlignedBuild(r1.predictions, a.normalizer),
      Then(Check(diff.ok),
      Then(Done(<<>>, {<<r1.labels, r2.predictions>>}),
      Then(Check(quot.ok),
      Then(Done(<<>>, {<<diff.shape, r2.labels>>}),
           streaming_mean_build(quot.shape, a.weights, weighted)))))))

\* streaming_mean_cosine_distance with dim the last dimension: the product is
\* summed over dim with keep_dims=True.
CosineBuild(a, weighted) ==
  LET r == _remove_squeezable_dimensions(a.predictions, a.labels)
      prod == Broadcast(r.predictions, r.labels).shape
      radial_diffs == [i \in DOMAIN prod |-> IF i = Len(prod) THEN 1 ELSE prod[i]]
  IN  Then(AlignedBuild(a.predictions, a.labels),
      Then(Done(<<>>, {<<r.predictions, r.labels>>}),
           streaming_mean_build(radial_diffs, a.weights, weighted)))

\* streaming_recall_at_k: nn.in_top_k takes predictions [batch, classes] and
\* labels [batch] and gives [batch].
RecallAtKBuild(a, masked) ==
  Then(Check(/\ Len(a.predictions) = 2
             /\ Len(a.labels) = 1
             /\ is_compatible_with(<<a.predictions[1]>>, a.labels)),
  Then(_mask_to_weights_build(a.mask_dtype, masked),
       streaming_mean_build(Broadcast(<<a.predictions[1]>>, a.labels).shape,
                            a.weights, masked)))

\* streaming_percentage_less: values are compared with the scalar threshold.
PercentageLessBuild(a, masked) ==
  Then(_mask_to_weights_build(a.mask_dtype, masked),
       streaming_mean_build(a.predictions, a.weights, masked))

\* streaming_precision and streaming_recall.
PRBuild(first, second, a, masked) ==
  LET r == _remove_squeezable_dimensions(a.predictions, a.labels)
  IN  Then(AlignedBuild(a.predictions, a.labels),
      Then(_streaming_counter_build(first, r.predictions, r.labels, a.weights,
                                    a.mask_dtype, masked),
           _streaming_counter_build(second, r.predictions, r.labels, a.weights,
                                    a.mask_dtype, masked)))

\* array_ops.reshape(x, [-1, 1]) of a static shape.
RECURSIVE NumElements(_)
NumElements(s) ==
  IF s = <<>> THEN 1
  ELSE IF Head(s) = None \/ NumElements(Tail(s)) = None THEN None
  ELSE Head(s) * NumElements(Tail(s))

reshape(s) == <<NumElements(s), 1>>

\* array_ops.transpose(x) reverses the dimensions.
transpose(s) == [i \in DOMAIN s |-> s[Len(s) + 1 - i]]

\* array_ops.tile(x, [num_thresholds, 1]): raises unless x has rank 2.
tile(s) ==
  [ok |-> Len(s) = 2,
   shape |-> IF Len(s) = 2
             THEN <<IF s[1] = None THEN None ELSE NumThresholds * s[1], s[2]>>
             ELSE s]

\* The two logging_ops.Assert ops streaming_auc creates: the rank-1 test of
\* predictions and of labels, as they hold of the tensors passed in.
AucAsserts(a) ==
  LET r == _remove_squeezable_dimensions(a.predictions, a.labels)
  IN  [assert_predictions_rank |-> Len(r.predictions) = 1,
       assert_labels_rank |-> Len(r.labels) = 1]

\* streaming_auc: the four counter vectors are created before the mask is
\* tiled and checked.
AucBuild(a, masked) ==
  LET r == _remove_squeezable_dimensions(a.predictions, a.labels)
      labels_tiled == tile(transpose(reshape(r.labels)))
      mask_tiled == tile(transpose(a.weights))
  IN  Then(AlignedBuild(a.predictions, a.labels),
      Then(Done(<<"true_positives", "false_negatives", "true_negatives",
                       "false_positives">>,
                     {<<tile(transpose(reshape(r.predictions))).shape, labels_tiled.shape>>}),
           IF masked
           THEN Then(Check(mask_tiled.ok),
                Then(Check(is_compatible_with(labels_tiled.shape, mask_tiled.shape)),
                Then(Check(a.mask_dtype = "bool"),
                     Done(<<>>, {<<mask_tiled.shape, labels_tiled.shape>>}))))
           ELSE Done(<<>>, {})))

\* The tensors a metric function is called with: weights holds the shape of
\* weights or of ignore_mask, whichever the function takes.
ArgsOf(m) ==
  [predictions : Shapes,
   labels : IF m.fn \in {"streaming_mean", "streaming_percentage_less"}
            THEN {<<>>} ELSE Shapes,
   normalizer : IF m.fn = "streaming_mean_relative_error" THEN Shapes ELSE {<<>>},
   weights : IF m.opt THEN Shapes ELSE {<<>>},
   mask_dtype : IF m.opt /\ m.fn \in MaskedMeanFns \cup PRFns \cup {"streaming_auc"}
                THEN Dtypes ELSE {"bool"}]

\* The call of the metric function of m with the tensors a.
Build(m, a) ==
  CASE m.fn = "streaming_mean" -> streaming_mean_build(a.predictions, a.weights, m.opt)
    [] m.fn \in ErrorFns -> ErrorBuild(a, m.opt)
    [] m.fn = "streaming_mean_relative_error" -> RelativeErrorBuild(a, m.opt)
    [] m.fn = "streaming_mean_cosine_distance" -> CosineBuild(a, m.opt)
    [] m.fn = "streaming_recall_at_k" -> RecallAtKBuild(a, m.opt)
    [] m.fn = "streaming_percentage_less" -> PercentageLessBuild(a, m.opt)
    [] m.fn = "streaming_precision" ->
         PRBuild("true_positives", "false_positives", a, m.opt)
    [] m.fn = "streaming_recall" ->
         PRBuild("true_positives", "false_negatives", a, m.opt)
    [] m.fn = "streaming_auc" -> AucBuild(a, m.opt)

-----------------------------------------------------------------------------
(* The state machine. *)

\* The last run: the fetch, the variables the run started on, the operands
\* of its assign_add ops, the tally of its batch; and for a run of value the
\* run before it.
NoRun == [op |-> "none", pre |-> <<>>, delta |-> <<>>, want |-> <<>>,
          prev_op |-> "none", prev_pre |-> <<>>, prev_delta |-> <<>>]

\* The threads that call session.run, and a thread outside a call: ret is
\* <<x>> once the last call of the thread has returned x.
Threads == {1, 2}

NoCall == [fetch |-> "none", delta |-> <<>>, loaded |-> <<>>, done |-> {}, ret |-> <<>>]

\* No metric function called last, and no run of a metric of the graph last.
NoBuilt == [status |-> "none", args |-> <<>>, created |-> {}, combined |-> {}]

NoRan == [status |-> "none", instance |-> 0, op |-> "none"]

NoAdjusted == [predictions |-> <<>>, labels |-> <<>>, status |-> "none", result |-> <<>>]

Init ==
  /\ metric \in Metrics
  /\ acc = [v \in Accumulators(metric.fn) |-> _create_local(metric.fn)]
  /\ last = NoRun
  /\ nupd = 0
  /\ seen = NoTally(metric)
  /\ thr = [t \in Threads |-> NoCall]
  /\ begun = <<>>
  /\ local_variables = <<>>
  /\ instances = <<>>
  /\ built = NoBuilt
  /\ ran = NoRan
  /\ adjusted = NoAdjusted
  /\ fed = <<>>

\* What a batch determines of a run: the operands of the assign_add ops
\* (delta) and the tally of the batch (want).
FeedsOfSize(m, n) ==
  {[delta |-> Increments(m, b), want |-> Tally(m, b)] : b \in BatchesOfSize(m, n)}

\* The same for every metric and batch size, worked out once.
FeedTable ==
  {[metric |-> m, size |-> n, feeds |-> FeedsOfSize(m, n)] :
     m \in Metrics, n \in 0..MaxBatch}

Feeds(m, n) == (CHOOSE e \in FeedTable : e.metric = m /\ e.size = n).feeds

\* The assign_add ops a run of the fetch executes.
Assigns(fn, fetch) == Needed(fn, fetch) \cap Accumulators(fn)

\* The ops of a run of the fetch that read variables.
Readers(fn, fetch) == {o \in Needed(fn, fetch) : Reads(fn, o) # {}}

\* Whether the ops can execute one after another with every edge <<a, b>>
\* having a before b.
RECURSIVE Executable(_, _)
Executable(ops, edges) ==
  LET first == {o \in ops : \A e \in edges : e[2] = o => e[1] \notin ops}
  IN  ops = {} \/ (first # {} /\ Executable(ops \ first, edges))

\* The orders of execution of a run, as far as they can be told apart: for
\* each op that reads variables, the assign_add ops executed before it.  An
\* op executes after its inputs, after the assign_add ops it sees and before
\* the other assign_add ops of the variables it reads.
SchedulesOf(fn, fetch) ==
  {s \in [Readers(fn, fetch) -> SUBSET Assigns(fn, fetch)] :
     /\ \A o \in DOMAIN s : s[o] \subseteq Reads(fn, o)
     /\ Executable(Needed(fn, fetch),
                   {<<i, o>> : i \in Needed(fn, fetch), o \in Needed(fn, fetch)}
                     \cap {e \in Needed(fn, fetch) \X Needed(fn, fetch) :
                             \/ e[1] \in Inputs(fn, e[2])
                             \/ e[2] \in DOMAIN s /\ e[1] \in s[e[2]]
                             \/ /\ e[1] \in DOMAIN s
                                /\ e[2] \in (Reads(fn, e[1]) \cap Assigns(fn, fetch)) \ s[e[1]]})}

ScheduleTable ==
  {[fn |-> fn, fetch |-> fetch, schedules |-> {s : s \in SchedulesOf(fn, fetch)}] :
     fn \in AllFns, fetch \in {"value", "update_op"}}

Schedules(fn, fetch) == (CHOOSE e \in ScheduleTable : e.fn = fn /\ e.fetch = fetch).schedules

\* Faulty variant: the operand replaces what the variable held.
assign_overwrite(ref, operand) == operand

\* Faulty variant: the operand is subtracted.
assign_sub(ref, operand) ==
  IF metric.fn = "streaming_auc" THEN [i \in DOMAIN ref |-> ref[i] - operand[i]]
  ELSE sub(ref, operand)

\* state_ops.assign_add(ref, operand): scalars, and the counter vectors.
assign_add(ref, operand) ==
  IF metric.fn = "streaming_auc" THEN [i \in DOMAIN ref |-> ref[i] + operand[i]]
  ELSE add(ref, operand)

\* The variables named, after the assign_add ops named have executed.
Applied(a, delta, ops, read) ==
  [v \in read |-> IF v \in ops THEN assign_add(a[v], delta[v]) ELSE a[v]]

\* Faulty variant: the formula is evaluated before the increments are committed.
ReadsBeforeAssigns(fn, fetch, a, delta) ==
  {[o \in Readers(fn, fetch) |-> [v \in Reads(fn, o) |-> a[v]]]}

\* What each op that reads variables reads in a run that starts on a and
\* executes in one of the orders.
ReadsOf(fn, fetch, a, delta) ==
  {[o \in DOMAIN s |-> Applied(a, delta, s[o], Reads(fn, o))] : s \in Schedules(fn, fetch)}

\* The numbers a run of the fetch that starts on a can return.
Returns(fn, fetch, a, delta) ==
  {Finalize(fn, fetch, r) : r \in ReadsOf(fn, fetch, a, delta)}

\* The numbers the last run, and the run before it, can have returned.
Returned == Returns(metric.fn, last.op, last.pre, last.delta)

ReturnedBefore == Returns(metric.fn, last.prev_op, last.prev_pre, last.prev_delta)

\* The number a run of value returns on the variables a.
ValueOn(a) == Returns(metric.fn, "value", a, <<>>)

\* A run with no assign_add op reads no batch.
NoFeed == [delta |-> <<>>, want |-> <<>>]

\* session.run(fetch): the tensors fed fix the operands of the assign_add
\* ops, the ops execute in one of the orders (the assign_add ops each once),
\* and the run returns one of Returns(fetch, variables before, operands).
Run(fetch) ==
  /\ Assigns(metric.fn, fetch) # {} => nupd < MaxUpdates
  /\ \E f \in IF Assigns(metric.fn, fetch) # {}
              THEN UNION {Feeds(metric, n) : n \in 0..MaxBatch}
              ELSE {NoFeed} :
       /\ acc' = Applied(acc, f.delta, Assigns(metric.fn, fetch), DOMAIN acc)
       /\ last' = [op |-> fetch, pre |-> acc, delta |-> f.delta, want |-> f.want,
                   prev_op |-> IF fetch = "value" THEN last.op ELSE "none",
                   prev_pre |-> IF fetch = "value" THEN last.pre ELSE <<>>,
                   prev_delta |-> IF fetch = "value" THEN last.delta ELSE <<>>]
       /\ seen' = IF Assigns(metric.fn, fetch) # {} THEN AddTally(seen, f.want) ELSE seen
  /\ nupd' = IF Assigns(metric.fn, fetch) # {} THEN nupd + 1 ELSE nupd
  /\ UNCHANGED <<metric, threadvars, graphvars>>

\* session.run(value)
Value ==
  /\ Run("value")
  /\ last'.op = "value"

\* session.run(update_op)
UpdateOp ==
  /\ Run("update_op")
  /\ last'.op = "update_op"

Next == Value \/ UpdateOp

Spec == Init /\ [][Next]_vars

-----------------------------------------------------------------------------
(* Runs that overlap.  session.run may be called from several threads at   *)
(* once; each call executes the ops its fetch depends on, each once, and   *)
(* the ops of two calls interleave.  Every assign_add of the source is     *)
(* built with the default use_locking=False: the op reads the variable and *)
(* writes the sum back without holding the lock of the variable, so an op  *)
(* of another call can execute between the read and the write.             *)

\* The metrics whose calls are interleaved op by op.
ThreadFns == {"streaming_mean", "streaming_precision", "streaming_recall"}

ThreadInit ==
  /\ Init
  /\ metric.fn \in ThreadFns
  /\ ~metric.opt

\* An op of the call of thread t that has not executed and whose inputs have.
Ready(t, op) ==
  /\ thr[t].fetch # "none"
  /\ op \in Needed(metric.fn, thr[t].fetch) \ thr[t].done
  /\ Inputs(metric.fn, op) \subseteq thr[t].done

\* Thread t calls session.run(fetch); begun lists the operands of the
\* assign_add ops of the calls of update_op so far.
Call(t, fetch) ==
  /\ thr[t].fetch = "none"
  /\ Assigns(metric.fn, fetch) # {} => nupd < MaxUpdates
  /\ \E f \in IF Assigns(metric.fn, fetch) # {}
              THEN UNION {Feeds(metric, n) : n \in 0..MaxBatch}
              ELSE {NoFeed} :
       /\ thr' = [thr EXCEPT ![t] = [NoCall EXCEPT !.fetch = fetch, !.delta = f.delta]]
       /\ begun' = IF Assigns(metric.fn, fetch) # {} THEN Append(begun, f.delta) ELSE begun
  /\ nupd' = IF Assigns(metric.fn, fetch) # {} THEN nupd + 1 ELSE nupd
  /\ UNCHANGED <<metric, acc, last, seen, graphvars>>

CallValue(t) ==
  /\ Call(t, "value")
  /\ thr'[t].fetch = "value"

CallUpdateOp(t) ==
  /\ Call(t, "update_op")
  /\ thr'[t].fetch = "update_op"

\* The assign_add op of a variable, first half: read the variable.
Load(t) ==
  \E v \in Accumulators(metric.fn) :
    /\ Ready(t, v)
    /\ v \notin DOMAIN thr[t].loaded
    /\ thr' = [thr EXCEPT ![t].loaded = (v :> acc[v]) @@ @]
    /\ UNCHANGED <<metric, acc, last, nupd, seen, begun, graphvars>>

\* The assign_add op of a variable, second half: write the sum back.
Store(t) ==
  \E v \in DOMAIN thr[t].loaded :
    /\ v \notin thr[t].done
    /\ acc' = [acc EXCEPT ![v] = assign_add(thr[t].loaded[v], thr[t].delta[v])]
    /\ thr' = [thr EXCEPT ![t].done = @ \cup {v}]
    /\ UNCHANGED <<metric, last, nupd, seen, begun, graphvars>>

\* The fetched op executes: it reads the variables it takes as inputs as
\* they are now, and the call returns the number.
Return(t) ==
  /\ Ready(t, thr[t].fetch)
  /\ thr' = [thr EXCEPT ![t] =
               [NoCall EXCEPT !.ret =
                  <<Finalize(metric.fn, thr[t].fetch,
                             [o \in {thr[t].fetch} |->
                                [v \in Reads(metric.fn, o) |-> acc[v]]])>>]]
  /\ UNCHANGED <<metric, acc, last, nupd, seen, begun, graphvars>>

ThreadNext ==
  \E t \in Threads :
    \/ CallValue(t)
    \/ CallUpdateOp(t)
    \/ Load(t)
    \/ Store(t)
    \/ Return(t)

ThreadSpec == ThreadInit /\ [][ThreadNext]_vars

-----------------------------------------------------------------------------
(* A graph that holds several metrics.  Each call of the metric function   *)
(* runs under the scope name the caller passes; the runs of the session    *)
(* fetch value or update_op of one of the metrics and do not overlap.      *)

\* The scope names of the example of the module docstring.
Scopes == {"preds0", "preds1"}

\* The most calls of the metric function on one graph.
MaxMetrics == 2

\* Faulty variant: a variable is looked up by its name alone and reused.
VariableByName(scope, name, serial) == [scope |-> "", name |-> name, serial |-> 0]

\* variables.Variable(initial_value, name=name, ...): a constructor call, a
\* variable of its own every time; serial is its place among the variables
\* of the graph.
Variable(scope, name, serial) == [scope |-> scope, name |-> name, serial |-> serial]

Range(f) == {f[x] : x \in DOMAIN f}

\* Faulty variant: creating a variable initializes every local variable.
CreatedAndInitialized(store, new) ==
  [h \in DOMAIN store \cup new |-> _create_local(metric.fn)]

\* The variables of the graph once the variables new are created: a new
\* variable holds zeros, the others are not touched.
Created(store, new) ==
  [h \in DOMAIN store \cup new |->
     IF h \in DOMAIN store THEN store[h] ELSE _create_local(metric.fn)]

\* What the calls of the metric function of m can make of the tensors
\* passed in, worked out once for every metric: whether the call raised, the
\* variables created by then, the Assert ops built.
OutcomesOf(m) ==
  {[status |-> Build(m, a).status, created |-> Build(m, a).created,
    asserts |-> IF m.fn = "streaming_auc" /\ Build(m, a).status = "ok"
                THEN AucAsserts(a) ELSE <<>>] : a \in ArgsOf(m)}

OutcomeTable == {[metric |-> m, outcomes |-> OutcomesOf(m)] : m \in Metrics}

Outcomes(m) == (CHOOSE e \in OutcomeTable : e.metric = m).outcomes

\* The metric function of metric is called under the scope with tensors of
\* some static shapes and types.
Construct(scope) ==
  /\ Len(instances) < MaxMetrics
  /\ \E b \in Outcomes(metric) :
       LET n == Cardinality(DOMAIN local_variables)
           new == [i \in DOMAIN b.created |-> Variable(scope, b.created[i], n + i)]
       IN  /\ local_variables' = Created(local_variables, Range(new))
           /\ instances' =
                Append(instances,
                       [scope |-> scope, status |-> b.status,
                        variables |-> [i \in DOMAIN new |-> new[i]],
                        names |-> b.created, asserts |-> b.asserts])
           /\ built' = [status |-> b.status, args |-> <<>>, created |-> Range(new),
                        combined |-> {}]
  /\ ran' = NoRan
  /\ UNCHANGED <<metric, acc, last, nupd, seen, threadvars, adjusted, fed>>

\* The variables of a metric of the graph, by the names the source gives them.
VariablesOf(inst, store) ==
  [v \in Range(inst.names) |->
     store[inst.variables[CHOOSE i \in DOMAIN inst.names : inst.names[i] = v]]]

\* The name the source gives variable h of a metric of the graph.
NameOf(inst, h) ==
  inst.names[CHOOSE j \in DOMAIN inst.variables : inst.variables[j] = h]

\* The Assert ops of a metric that a run of the fetch executes and that fail.
FailedAsserts(inst, fetch) ==
  {x \in DOMAIN inst.asserts \cap Needed(metric.fn, fetch) : ~inst.asserts[x]}

\* session.run of value or update_op of metric i of the graph.
RunOn(i, fetch) ==
  /\ i \in DOMAIN instances
  /\ instances[i].status = "ok"
  /\ Assigns(metric.fn, fetch) # {} => nupd < MaxUpdates
  /\ \E f \in IF Assigns(metric.fn, fetch) # {}
              THEN UNION {Feeds(metric, n) : n \in 0..MaxBatch}
              ELSE {NoFeed} :
       LET raises == FailedAsserts(instances[i], fetch) # {}
           a == VariablesOf(instances[i], local_variables)
           after == IF raises THEN a
                    ELSE Applied(a, f.delta, Assigns(metric.fn, fetch), DOMAIN a)
       IN  /\ local_variables' =
                [h \in DOMAIN local_variables |->
                   IF h \in Range(instances[i].variables)
                   THEN after[NameOf(instances[i], h)]
                   ELSE local_variables[h]]
           /\ ran' = [status |-> IF raises THEN "raised" ELSE "ok", instance |-> i,
                      op |-> fetch]
  /\ nupd' = IF Assigns(metric.fn, fetch) # {} THEN nupd + 1 ELSE nupd
  /\ built' = NoBuilt
  /\ UNCHANGED <<metric, acc, last, seen, threadvars, instances, adjusted, fed>>

RunValue(i) ==
  /\ RunOn(i, "value")
  /\ ran'.op = "value"

RunUpdateOp(i) ==
  /\ RunOn(i, "update_op")
  /\ ran'.op = "update_op"

GraphNext ==
  \/ \E scope \in Scopes : Construct(scope)
  \/ \E i \in 1..MaxMetrics : RunValue(i)
  \/ \E i \in 1..MaxMetrics : RunUpdateOp(i)

\* The metrics the graph of several metrics is explored for: one that hands
\* predictions, labels and weights to streaming_mean, one built of
\* _count_condition counters with ignore_mask, one that turns ignore_mask
\* into weights.
GraphFns == {"streaming_accuracy", "streaming_precision", "streaming_percentage_less"}

GraphInit ==
  /\ Init
  /\ metric.fn \in GraphFns

GraphSpec == GraphInit /\ [][GraphNext]_vars

\* The same for streaming_auc.
AucGraphInit ==
  /\ Init
  /\ metric.fn = "streaming_auc"

AucGraphSpec == AucGraphInit /\ [][GraphNext]_vars

\* The call of a metric function, on its own: the tensors passed in and
\* what the call makes of them.
CallMetric ==
  /\ built = NoBuilt
  /\ adjusted = NoAdjusted
  /\ \E a \in ArgsOf(metric) :
       built' = [status |-> Build(metric, a).status, args |-> a,
                 created |-> Range(Build(metric, a).created),
                 combined |-> Build(metric, a).combined]
  /\ UNCHANGED <<metric, acc, last, nupd, seen, threadvars, local_variables, instances, ran,
                 adjusted, fed>>

\* Static shapes for a call of _remove_squeezable_dimensions alone: ranks 0 to
\* 3 and unknown, last dimensions of size 1, of another size and unknown.
TensorShapes ==
  {unknown_shape, <<>>, <<1>>, <<2>>, <<None>>, <<2, 1>>, <<2, 2>>, <<2, None>>,
   <<2, 1, 1>>, <<2, 2, 1>>}

\* predictions, labels = _remove_squeezable_dimensions(predictions, labels)
RemoveSqueezable ==
  /\ built = NoBuilt
  /\ adjusted = NoAdjusted
  /\ \E predictions \in TensorShapes, labels \in TensorShapes :
       LET r == _remove_squeezable_dimensions(predictions, labels)
       IN  adjusted' = [predictions |-> predictions, labels |-> labels,
                        status |-> IF r.ok THEN "ok" ELSE "raised",
                        result |-> IF r.ok THEN <<r.predictions, r.labels>> ELSE <<>>]
  /\ UNCHANGED <<metric, acc, last, nupd, seen, threadvars, local_variables, instances,
                 built, ran, fed>>

ShapeNext == CallMetric \/ RemoveSqueezable

ShapeSpec == Init /\ [][ShapeNext]_vars

-----------------------------------------------------------------------------
(* Two runs of update_op on a new metric, with the batches fed kept, to set  *)
(* what they leave against one run fed the two batches joined.              *)

MaxPart == 1

\* The metrics whose state is sums over the elements fed.
StreamFns == {"streaming_mean", "streaming_precision", "streaming_recall", "streaming_auc"}

\* session.run(update_op) fed one batch, which is kept.
Feed ==
  /\ \E n \in 0..MaxPart : \E b \in BatchesOfSize(metric, n) :
       /\ acc' = Applied(acc, Increments(metric, b), Assigns(metric.fn, "update_op"),
                         DOMAIN acc)
       /\ last' = [op |-> "update_op", pre |-> acc, delta |-> Increments(metric, b),
                   want |-> Tally(metric, b), prev_op |-> "none", prev_pre |-> <<>>,
                   prev_delta |-> <<>>]
       /\ seen' = AddTally(seen, Tally(metric, b))
       /\ fed' = Append(fed, b)
  /\ nupd' = nupd + 1
  /\ UNCHANGED <<metric, threadvars, local_variables, instances, built, ran, adjusted>>

FirstUpdate ==
  /\ fed = <<>>
  /\ Feed

SecondUpdate ==
  /\ Len(fed) = 1
  /\ Feed

StreamNext == FirstUpdate \/ SecondUpdate

StreamInit == Init /\ metric.fn \in StreamFns

StreamSpec == StreamInit /\ [][StreamNext]_vars
-----------------------------------------------------------------------------
(* Properties. *)

\* Equality of two returned numbers of the metric.
Same(x, y) == IF metric.fn = "streaming_auc" THEN FEq(x, y) ELSE x = y

\* C1: for streaming_mean and the metrics that delegate to it, the number a
\* run of update_op returns is the mean of total and count with both
\* increments of the batch applied, and a run of value that follows with no
\* update in between returns that same number.
C1_MeanUpdateOpMatchesNextValue ==
  metric.fn \in MeanFns =>
    /\ last.op = "update_op" => Returned = ValueOn(acc)
    /\ (last.op = "value" /\ last.prev_op = "update_op") => ReturnedBefore = Returned

\* An update_op of a mean metric changed the number, and value was read next.
C1_Witness ==
  /\ metric.fn \in MeanFns
  /\ last.op = "value"
  /\ last.prev_op = "update_op"
  /\ ReturnedBefore # ValueOn(last.prev_pre)
  /\ last.prev_delta.count # Rat(0, 1)

\* C2: for streaming_auc, every op of a run of update_op that reads a counter
\* vector reads it with the increment of the batch applied, so update_op
\* returns the number a run of value returns right after it.
C2_AucUpdateOpMatchesNextValue ==
  (metric.fn = "streaming_auc" /\ last.op = "update_op") =>
    /\ \A r \in ReadsOf(metric.fn, "update_op", last.pre, last.delta) :
         \A o \in DOMAIN r : \A v \in DOMAIN r[o] : r[o][v] = acc[v]
    /\ \A u \in Returned : \A v \in ValueOn(acc) : Same(u, v)

\* C3: for streaming_precision and streaming_recall, update_op returns the
\* formula on counters that include both increments of the batch, and a run
\* of value that follows with no update in between returns the same number.
C3_PrecisionRecallUpdateOpMatchesNextValue ==
  metric.fn \in PRFns =>
    /\ last.op = "update_op" => Returned = ValueOn(acc)
    /\ (last.op = "value" /\ last.prev_op = "update_op") => ReturnedBefore = Returned

\* An update_op of precision or recall changed the number, and value was
\* read next.
C3_Witness ==
  /\ metric.fn \in PRFns
  /\ last.op = "value"
  /\ last.prev_op = "update_op"
  /\ ReturnedBefore # ValueOn(last.prev_pre)
  /\ \A v \in DOMAIN last.prev_delta : last.prev_delta[v] # Rat(0, 1)

\* C4: a run of value leaves every accumulator as it was, and two runs of
\* value with no update in between return the same number.
C4_ValueLeavesStateUnchanged ==
  last.op = "value" =>
    /\ acc = last.pre
    /\ last.prev_op = "value" =>
         \A x \in ReturnedBefore : \A y \in Returned : Same(x, y)

\* value was read twice in a row on accumulators that an update had changed.
C4_Witness ==
  /\ last.op = "value"
  /\ last.prev_op = "value"
  /\ acc # [v \in Accumulators(metric.fn) |-> _create_local(metric.fn)]
  /\ nupd > 0
\* C5: one run of streaming_mean's update_op adds sum(values * weights) to
\* total and sum(weights) to count when weights are given, and sum(values)
\* to total and the number of elements to count when they are not; the
\* metric has no other variable.
C5_MeanUpdateIncrements ==
  (metric.fn = "streaming_mean" /\ last.op = "update_op") =>
    /\ DOMAIN acc = {"total", "count"}
    /\ acc.total = Rat(last.pre.total.n + last.want.total, 1)
    /\ acc.count = Rat(last.pre.count.n + last.want.count, 1)

\* A weighted update on accumulators that are not zero, whose weights do not
\* sum to the number of elements.
C5_Witness ==
  /\ metric = [fn |-> "streaming_mean", opt |-> TRUE]
  /\ last.op = "update_op"
  /\ last.pre.count # Rat(0, 1)
  /\ last.want.total # 0
  /\ last.want.count < 0

\* C6: the mean streaming_mean reports, from value and from update_op, is
\* total / count when count > 0 and 0 otherwise.
C6_MeanIsTotalOverCount ==
  (metric.fn = "streaming_mean" /\ last.op # "none") =>
    Returned = {IF acc.count.n > 0 THEN Rat(acc.total.n, acc.count.n) ELSE Rat(0, 1)}

\* The accumulated weight is negative while total is not zero.
C6_Witness ==
  /\ metric.fn = "streaming_mean"
  /\ last.op = "update_op"
  /\ acc.count.n < 0
  /\ acc.total.n # 0

\* Whether the sums the finalization formula divides by are zero.
DenominatorIsZero ==
  CASE metric.fn \in MeanFns -> acc.count = Rat(0, 1)
    [] metric.fn = "streaming_precision" ->
         acc.true_positives.n + acc.false_positives.n = 0
    [] metric.fn = "streaming_recall" ->
         acc.true_positives.n + acc.false_negatives.n = 0
    [] metric.fn = "streaming_auc" ->
         \A i \in 1..NumThresholds :
           /\ acc.false_positives[i] + acc.true_negatives[i] = 0
           /\ acc.true_positives[i] + acc.false_negatives[i] = 0

\* Whether a returned number of the metric is 0.
IsZero(x) ==
  CASE metric.fn = "streaming_auc" -> FEq(x, FZero)
    [] metric.fn = "streaming_root_mean_squared_error" -> x = sqrt(Rat(0, 1))
    [] OTHER -> x = Rat(0, 1)

C8_PrecisionFormula ==
  (metric.fn = "streaming_precision" /\ last.op # "none") =>
    Returned = {IF seen.true_positives + seen.false_positives > 0
                THEN Rat(seen.true_positives, seen.true_positives + seen.false_positives)
                ELSE Rat(0, 1)}

\* Two masked batches with a true positive, a false positive and an ignored
\* positive prediction among them.
C8_Witness ==
  /\ metric = [fn |-> "streaming_precision", opt |-> TRUE]
  /\ last.op = "value"
  /\ nupd = 2
  /\ seen.true_positives > 0
  /\ seen.false_positives > 0
  /\ seen.ignored > 0

C10_CounterIncrements ==
  (metric.fn \in PRFns /\ last.op = "update_op") =>
    \A c \in DOMAIN acc : acc[c] = Rat(last.pre[c].n + last.want[c], 1)

\* An update whose batch has an ignored positive prediction next to a
\* counted true positive, on counters that are not zero.
C10_Witness ==
  /\ metric.fn \in PRFns
  /\ metric.opt
  /\ last.op = "update_op"
  /\ last.want.ignored > 0
  /\ last.want.true_positives > 0
  /\ last.pre.true_positives # Rat(0, 1)
\* The variables after the assign_add ops of the calls ks of begun, from zero.
RECURSIVE AfterBatches(_)
AfterBatches(ks) ==
  IF ks = {} THEN [v \in DOMAIN acc |-> _create_local(metric.fn)]
  ELSE LET j == CHOOSE j \in ks : TRUE
           a == AfterBatches(ks \ {j})
       IN  [v \in DOMAIN acc |-> assign_add(a[v], begun[j][v])]

\* C11: when update_op calls that overlap have all returned, every
\* accumulator holds its value from before them plus the operands of all
\* their assign_add ops: no increment is lost, whatever the interleaving.
C11_NoLostIncrement ==
  (\A t \in Threads : thr[t].fetch = "none") =>
    acc = AfterBatches(1..Len(begun))

\* C12: the number a call returns while another call of update_op of the
\* same metric is under way is the formula on accumulator values that all
\* reflect one and the same set of batches.
C12_ConsistentSnapshot ==
  \A t \in Threads :
    thr[t].ret # <<>> =>
      \E ks \in SUBSET (1..Len(begun)) : thr[t].ret[1] \in ValueOn(AfterBatches(ks))
\* The metrics of the graph that were constructed.
Constructed == {i \in DOMAIN instances : instances[i].status = "ok"}

\* C13: two metrics constructed under distinct scope names own disjoint
\* accumulators, and a run on one of them, update_op or value, leaves the
\* accumulators of the other and the number its value reports unchanged,
\* whatever the order of the runs.
C13_DistinctScopesIndependent ==
  [][\A i \in Constructed : \A j \in Constructed :
       (ran'.instance = i /\ instances[i].scope # instances[j].scope) =>
         /\ Range(instances[i].variables) \cap Range(instances[j].variables) = {}
         /\ VariablesOf(instances[j], local_variables')
              = VariablesOf(instances[j], local_variables)
         /\ ValueOn(VariablesOf(instances[j], local_variables'))
              = ValueOn(VariablesOf(instances[j], local_variables))]_vars

\* Two metrics under distinct scope names, both updated to accumulators that
\* are not zero, the first one last.
C13_Witness ==
  /\ Constructed = {1, 2}
  /\ instances[1].scope # instances[2].scope
  /\ ran.instance = 1
  /\ ran.op = "update_op"
  /\ \A i \in Constructed : \A h \in Range(instances[i].variables) :
       local_variables[h] # _create_local(metric.fn)

\* C14: creating an accumulator is idempotent by name: two metrics declared
\* under the same scope name get the same accumulators and accumulate
\* together.
C14_SameScopeSharesAccumulators ==
  \A i \in Constructed : \A j \in Constructed :
    instances[i].scope = instances[j].scope =>
      instances[i].variables = instances[j].variables
\* x >= y for an accumulator: scalars, and the counter vectors cell by cell.
AtLeast(x, y) ==
  IF metric.fn = "streaming_auc" THEN \A i \in DOMAIN x : x[i] >= y[i]
  ELSE x.n * y.d >= y.n * x.d

\* C15: every accumulator is zero when created, and every count-like
\* accumulator (the confusion counters, the AUC vectors cell by cell, total
\* and count of a mean fed no negative value or weight) is after an update
\* at least what it was before it.
C15_ZeroAtCreationAndMonotone ==
  /\ nupd = 0 =>
       \A v \in DOMAIN acc :
         acc[v] = IF metric.fn = "streaming_auc" THEN [i \in 1..NumThresholds |-> 0]
                  ELSE Rat(0, 1)
  /\ (/\ last.op = "update_op"
      /\ metric.fn = "streaming_mean" => last.want.negative = 0) =>
       \A v \in DOMAIN acc : AtLeast(acc[v], last.pre[v])

\* A second update of a weighted mean, with no negative weight, that raises
\* total and count above what the first left.
C15_Witness ==
  /\ metric = [fn |-> "streaming_mean", opt |-> TRUE]
  /\ last.op = "update_op"
  /\ nupd = 2
  /\ last.want.negative = 0
  /\ last.pre.count.n > 0
  /\ acc.count.n > last.pre.count.n
  /\ acc.total.n > last.pre.total.n
\* C16: a metric whose predictions, labels and weights or ignore_mask do not
\* agree in shape after the one squeeze is not constructed: every pair of
\* arrays a constructed metric combines element by element has one shape, as
\* far as the shapes are known at construction, and nothing is broadcast.
C16_ShapeMismatchFailsConstruction ==
  built.status = "ok" =>
    \A pair \in built.combined :
      /\ Len(pair[1]) = Len(pair[2])
      /\ \A i \in DOMAIN pair[1] :
           pair[1][i] = pair[2][i] \/ pair[1][i] = None \/ pair[2][i] = None
\* C17: a call of a metric function that raises on a failed check (shapes
\* that do not agree, a mask that is not bool) leaves every accumulator that
\* existed as it was and increments none; the variables it created before
\* the check hold zeros.
C17_FailedConstructionLeavesAccumulators ==
  [][built'.status = "raised" =>
       /\ \A h \in DOMAIN local_variables :
            h \in DOMAIN local_variables' /\ local_variables'[h] = local_variables[h]
       /\ \A h \in DOMAIN local_variables' \ DOMAIN local_variables :
            local_variables'[h] = Rat(0, 1)]_vars

\* A call that raised after it had created a variable, on a graph whose
\* first metric had been updated to accumulators that are not zero.
C17_Witness ==
  /\ built.status = "raised"
  /\ built.created # {}
  /\ Len(instances) = 2
  /\ instances[1].status = "ok"
  /\ \A h \in Range(instances[1].variables) : local_variables[h] # Rat(0, 1)
\* C18: streaming_auc fails fast when predictions or labels are not rank 1:
\* a run of value or update_op of such a metric raises instead of yielding a
\* number, and no AUC counter is incremented.
C18_AucRankCheckFailsFast ==
  \A i \in Constructed :
    (\E x \in DOMAIN instances[i].asserts : ~instances[i].asserts[x]) =>
      /\ ran.instance = i => ran.status = "raised"
      /\ \A h \in Range(instances[i].variables) :
           local_variables[h] = [j \in 1..NumThresholds |-> 0]
\* C19: one update of streaming_auc adds to cell i of each counter vector the
\* number of unignored elements of the batch in the cell's class at cut
\* point t_i: label 1 and score > t_i (true positives), label 1 and score
\* <= t_i (false negatives), label 0 and score > t_i (false positives),
\* label 0 and score <= t_i (true negatives); an ignored element adds 0.
C19_AucCounterIncrements ==
  (metric.fn = "streaming_auc" /\ last.op = "update_op") =>
    \A v \in DOMAIN acc : \A i \in 1..NumThresholds :
      acc[v][i] = last.pre[v][i] + last.want[v][i]

\* A second update with ignore_mask whose batch has an ignored element and a
\* counted positive with a score on a cut point.
C19_Witness ==
  /\ metric = [fn |-> "streaming_auc", opt |-> TRUE]
  /\ last.op = "update_op"
  /\ nupd = 2
  /\ last.want.ignored > 0
  /\ last.want.true_positives[1] > last.want.true_positives[2]
  /\ last.want.false_negatives[2] > last.want.false_negatives[1]
  /\ \E i \in 1..NumThresholds : last.pre.false_positives[i] > 0
\* The rates of the AUC formula at cut point i on the counter vectors a:
\* FP / (FP + TN + epsilon) and (TP + epsilon) / (TP + FN + epsilon).
RateFpr(a, i) ==
  FDiv(<<a.false_positives[i]>>, a.false_positives[i] + a.true_negatives[i])

RateRecall(a, i) ==
  FDiv(<<a.true_positives[i], 1>>, a.true_positives[i] + a.false_negatives[i])

\* The first n trapezoids summed.
RECURSIVE Trapezoids(_, _)
Trapezoids(a, n) ==
  IF n = 0 THEN FZero
  ELSE FAdd(Trapezoids(a, n - 1),
            FMul(FSub(RateFpr(a, n), RateFpr(a, n + 1)),
                 FHalf(FAdd(RateRecall(a, n), RateRecall(a, n + 1)))))

RECURSIVE LowestTerm(_)
LowestTerm(p) ==
  IF p = <<>> THEN 0 ELSE IF Head(p) # 0 THEN Head(p) ELSE LowestTerm(Tail(p))

FNonNegative(x) == LowestTerm(x.num) >= 0

\* C21: after any sequence of streaming_auc updates fpr does not increase
\* with the threshold index: FP[i] >= FP[i+1], TN[i] <= TN[i+1] and
\* fpr[i] >= fpr[i+1] for every i, so every trapezoid of the AUC sum is >= 0.
C21_FprNonIncreasing ==
  metric.fn = "streaming_auc" =>
    \A i \in 1..(NumThresholds - 1) :
      /\ acc.false_positives[i] >= acc.false_positives[i + 1]
      /\ acc.true_negatives[i] <= acc.true_negatives[i + 1]
      /\ FNonNegative(FSub(RateFpr(acc, i), RateFpr(acc, i + 1)))
      /\ FNonNegative(FMul(FSub(RateFpr(acc, i), RateFpr(acc, i + 1)),
                           FHalf(FAdd(RateRecall(acc, i), RateRecall(acc, i + 1)))))

\* Two updates that leave false positives strictly falling along the cut
\* points, next to true positives.
C21_Witness ==
  /\ metric.fn = "streaming_auc"
  /\ last.op = "update_op"
  /\ nupd = 2
  /\ acc.false_positives[1] > acc.false_positives[2]
  /\ acc.false_positives[2] > acc.false_positives[3]
  /\ acc.true_positives[1] > 0
\* The whole number n as a number of the AUC formula.
FInt(n) == [num |-> PNorm(<<n>>), c |-> 1, roots |-> EmptyBag]

\* How many lowest terms of a polynomial are zero.
RECURSIVE Order(_)
Order(p) == IF p = <<>> \/ Head(p) # 0 THEN 0 ELSE 1 + Order(Tail(p))

\* Whether x is n up to epsilon: x - n goes to 0 as epsilon goes to 0.
Near(x, n) ==
  LET e == FSub(x, FInt(n))
  IN  e.num = <<>> \/ Order(e.num) > CopiesIn(0, e.roots)

\* Every prediction is positive at the first cut point, negative at the last.
ExtremeCells ==
  /\ acc.false_negatives[1] = 0
  /\ acc.true_negatives[1] = 0
  /\ acc.true_positives[NumThresholds] = 0
  /\ acc.false_positives[NumThresholds] = 0

\* The original statement of C22: once updates have accumulated a prediction
\* with a score in [0,1], the curve ends at the (1,1) corner and at the (0,0)
\* corner, up to epsilon.
C22_EndPointsAreCorners ==
  (/\ metric.fn = "streaming_auc"
   /\ acc.true_positives[1] + acc.false_positives[1] > 0) =>
    /\ ExtremeCells
    /\ Near(RateFpr(acc, 1), 1)
    /\ Near(RateRecall(acc, 1), 1)
    /\ Near(RateFpr(acc, NumThresholds), 0)
    /\ Near(RateRecall(acc, NumThresholds), 0)

\* C22: with scores in [0,1] the first cut point takes every prediction as
\* positive (FN and TN stay 0) and the last takes every prediction as negative
\* (TP and FP stay 0); the first end point is the (1,1) corner up to epsilon
\* once a negative label was accumulated and (0,1) before, the last end point
\* is the (0,0) corner up to epsilon once a positive label was accumulated and
\* (0,1) before.
C22_ExtremeThresholds ==
  metric.fn = "streaming_auc" =>
    /\ ExtremeCells
    /\ FEq(RateRecall(acc, 1), FInt(1))
    /\ FEq(RateFpr(acc, NumThresholds), FInt(0))
    /\ IF acc.false_positives[1] > 0
         THEN Near(RateFpr(acc, 1), 1) /\ ~FEq(RateFpr(acc, 1), FInt(1))
         ELSE FEq(RateFpr(acc, 1), FInt(0))
    /\ IF acc.false_negatives[NumThresholds] > 0
         THEN /\ Near(RateRecall(acc, NumThresholds), 0)
              /\ ~FEq(RateRecall(acc, NumThresholds), FInt(0))
         ELSE FEq(RateRecall(acc, NumThresholds), FInt(1))

\* Two updates with both labels seen, some of each below the middle cut point.
C22_Witness ==
  /\ metric.fn = "streaming_auc"
  /\ last.op = "update_op"
  /\ nupd = 2
  /\ acc.false_positives[1] > acc.false_positives[2]
  /\ acc.true_positives[1] > acc.true_positives[2]
  /\ acc.true_positives[2] > 0
RootOfMeanSquares ==
  [sqrt_of |-> IF seen.count > 0 THEN Rat(seen.squares, seen.count) ELSE Rat(0, 1)]

\* C25: streaming_root_mean_squared_error keeps the total and count of the
\* mean squared error, each batch added exactly once per run of update_op;
\* update_op returns the square root of total / count after its increments,
\* and a run of value that follows returns that same number.
C25_RootMeanSquaredError ==
  metric.fn = "streaming_root_mean_squared_error" =>
    /\ DOMAIN acc = Accumulators("streaming_mean_squared_error")
    /\ acc.total = Rat(seen.squares, 1)
    /\ acc.count = Rat(seen.count, 1)
    /\ last.op = "update_op" =>
         /\ acc.total = add(last.pre.total, Rat(last.want.squares, 1))
         /\ acc.count = add(last.pre.count, Rat(last.want.count, 1))
         /\ Returned = {RootOfMeanSquares}
    /\ last.op = "value" => Returned = {RootOfMeanSquares}
    /\ (last.op = "value" /\ last.prev_op = "update_op") => ReturnedBefore = Returned

\* A run of value right after the second update_op, with errors of 0 and of 2
\* among the positions counted.
C25_Witness ==
  /\ metric.fn = "streaming_root_mean_squared_error"
  /\ last.op = "value"
  /\ last.prev_op = "update_op"
  /\ nupd = 2
  /\ seen.squares > 0
  /\ 4 * seen.count > seen.squares
C27_MaskTrueIsUsed ==
  (metric.fn = "streaming_recall_at_k" /\ metric.opt) =>
    /\ acc.total = Rat(seen.masked_hits, 1)
    /\ acc.count = Rat(seen.masked, 1)
\* C28: after any sequence of updates of streaming_accuracy total is the
\* weighted number of positions where the prediction equals the label, count
\* the weighted number of positions (weight 1 without weights), and value and
\* update_op report total / count, 0 while count is 0.
C28_AccuracyIsFractionOfMatches ==
  metric.fn = "streaming_accuracy" =>
    /\ acc.total = Rat(seen.matches, 1)
    /\ acc.count = Rat(seen.positions, 1)
    /\ last.op \in {"value", "update_op"} =>
         Returned = {IF seen.positions > 0 THEN Rat(seen.matches, seen.positions)
                     ELSE Rat(0, 1)}

\* A run of value after two weighted updates with matching and differing
\* positions counted.
C28_Witness ==
  /\ metric.fn = "streaming_accuracy"
  /\ metric.opt
  /\ last.op = "value"
  /\ nupd = 2
  /\ seen.matches > 0
  /\ seen.positions > seen.matches
\* C29: after updates of streaming_percentage_less with no position masked,
\* count is the number of values fed and total the number of them strictly
\* less than the threshold (a value equal to the threshold is not counted),
\* and value and update_op report total / count, 0 while count is 0.
C29_PercentageLessIsStrict ==
  (metric.fn = "streaming_percentage_less" /\ seen.masked = 0) =>
    /\ acc.total = Rat(seen.hits, 1)
    /\ acc.count = Rat(seen.size, 1)
    /\ last.op \in {"value", "update_op"} =>
         Returned = {IF seen.size > 0 THEN Rat(seen.hits, seen.size) ELSE Rat(0, 1)}

\* A run of value after two updates without ignore_mask, with values below
\* the threshold and values equal to it among those fed.
C29_Witness ==
  /\ metric.fn = "streaming_percentage_less"
  /\ ~metric.opt
  /\ last.op = "value"
  /\ nupd = 2
  /\ seen.hits > 0
  /\ seen.size > seen.hits
  /\ threshold \in Values
\* The metric functions that call _remove_squeezable_dimensions on
\* (predictions, labels).
SqueezingFns == AllFns \ {"streaming_mean", "streaming_percentage_less", "streaming_recall_at_k"}

\* Whether the rank of a static shape is known, and the shape less its last
\* dimension.
RankKnown(s) == s # unknown_shape

Front(s) == SubSeq(s, 1, Len(s) - 1)

\* One rank more than the other, both known.
OneMore(high, low) == RankKnown(high) /\ RankKnown(low) /\ Len(high) = Len(low) + 1

\* A call of a metric function gets past its check of predictions against
\* labels only with shapes that agree after the squeeze adjustment and
\* nothing else.
ValidatedAsAdjusted ==
  (built.status = "ok" /\ metric.fn \in SqueezingFns) =>
    LET r == _remove_squeezable_dimensions(built.args.predictions, built.args.labels)
    IN  r.ok /\ is_compatible_with(r.predictions, r.labels)

\* The original statement of C30: with both ranks known and one a rank above
\* the other, the last dimension of the tensor of higher rank is removed and
\* the other tensor is untouched; otherwise both come back unchanged; the
\* check of the shapes sees no other reshaping.
C30_SqueezeRemovesLastDimension ==
  /\ adjusted # NoAdjusted =>
       LET p == adjusted.predictions
           l == adjusted.labels
       IN  /\ adjusted.status = "ok"
           /\ adjusted.result =
                IF OneMore(l, p) THEN <<p, Front(l)>>
                ELSE IF OneMore(p, l) THEN <<Front(p), l>>
                ELSE <<p, l>>
  /\ ValidatedAsAdjusted

\* C30: with both ranks known and one a rank above the other, the last
\* dimension of the tensor of higher rank is removed if its size is 1 or
\* unknown, the other tensor being untouched, and the call raises if that
\* size is known and not 1; with equal ranks, ranks more than one apart or
\* an unknown rank both tensors come back unchanged; the check of the shapes
\* sees no other reshaping.
C30_SqueezeAdjustment ==
  /\ adjusted # NoAdjusted =>
       LET p == adjusted.predictions
           l == adjusted.labels
           high == IF OneMore(l, p) THEN l ELSE p
       IN  IF OneMore(l, p) \/ OneMore(p, l)
           THEN IF high[Len(high)] \in {1, None}
                THEN /\ adjusted.status = "ok"
                     /\ adjusted.result = IF high = l THEN <<p, Front(l)>> ELSE <<Front(p), l>>
                ELSE adjusted.status = "raised"
           ELSE adjusted.status = "ok" /\ adjusted.result = <<p, l>>
  /\ ValidatedAsAdjusted

\* A call with predictions of rank 3 and labels of rank 2 that removed the
\* last dimension of predictions.
C30_Witness ==
  /\ adjusted.status = "ok"
  /\ Len(adjusted.predictions) = 3
  /\ Len(adjusted.labels) = 2
  /\ adjusted.result = <<Front(adjusted.predictions), adjusted.labels>>
\* C31: every call of streaming_mean_relative_error that returns a metric
\* enters |labels - predictions| / normalizer with predictions, labels and
\* normalizer of one shape; a call in which the second squeeze (predictions
\* against normalizer) changes predictions after labels were aligned to it
\* raises.
C31_RelativeErrorOperandsAligned ==
  (metric.fn = "streaming_mean_relative_error" /\ built.status = "ok") =>
    LET r1 == _remove_squeezable_dimensions(built.args.predictions, built.args.labels)
        r2 == _remove_squeezable_dimensions(r1.predictions, built.args.normalizer)
    IN  /\ r2.predictions = r1.predictions
        /\ is_compatible_with(r1.labels, r2.predictions)
        /\ is_compatible_with(r2.predictions, r2.labels)
        /\ is_compatible_with(r1.labels, r2.labels)
\* C32: after any sequence of streaming_auc updates with labels in {0,1},
\* at every threshold index TP + FN is the number of unignored elements with
\* label 1 seen so far and FP + TN the number with label 0, so both sums are
\* the same at every index and the four cells together hold each unignored
\* element once.
C32_AucCellsPartitionTheLabels ==
  metric.fn = "streaming_auc" =>
    \A i \in 1..NumThresholds :
      /\ acc.true_positives[i] + acc.false_negatives[i] = seen.positives
      /\ acc.false_positives[i] + acc.true_negatives[i] = seen.negatives
      /\ acc.true_positives[i] + acc.false_negatives[i]
           + acc.false_positives[i] + acc.true_negatives[i] = seen.counted

\* A second update with ignore_mask whose batch has an ignored element, with
\* both labels counted so far and positives on both sides of the middle cut
\* point.
C32_Witness ==
  /\ metric = [fn |-> "streaming_auc", opt |-> TRUE]
  /\ last.op = "update_op"
  /\ nupd = 2
  /\ last.want.ignored > 0
  /\ seen.negatives > 0
  /\ acc.true_positives[2] > 0
  /\ acc.false_negatives[2] > 0
\* The tensors of two batches joined, each tensor with its like.
Concat(a, b) == [f \in DOMAIN a |-> a[f] \o b[f]]

\* The variables of a new metric, and the variables a after one run of
\* update_op fed the batch b.
NewVariables == [v \in Accumulators(metric.fn) |-> _create_local(metric.fn)]

UpdatedWith(a, b) ==
  Applied(a, Increments(metric, b), Assigns(metric.fn, "update_op"), DOMAIN a)

\* C33: for streaming_mean and the counters of precision, recall and AUC,
\* two updates with batches B1 and B2 leave the state, and the value read
\* from it, that one update with B1 and B2 joined leaves (weights or masks
\* joined alike), and so do the two batches in the other order; for
\* streaming_mean update_op returns the same number as well.
C33_StreamingEqualsBatch ==
  Len(fed) = 2 =>
    LET joined == UpdatedWith(NewVariables, Concat(fed[1], fed[2]))
    IN  /\ acc = joined
        /\ acc = UpdatedWith(UpdatedWith(NewVariables, fed[2]), fed[1])
        /\ acc = UpdatedWith(NewVariables, Concat(fed[2], fed[1]))
        /\ ValueOn(acc) = ValueOn(joined)
        /\ metric.fn = "streaming_mean" =>
             Returned = Returns(metric.fn, "update_op", NewVariables,
                                Increments(metric, Concat(fed[1], fed[2])))

\* Two updates with batches that are not empty and differ, each of which
\* changed the variables.
C33_Witness ==
  /\ Len(fed) = 2
  /\ fed[1] # fed[2]
  /\ last.pre # NewVariables
  /\ acc # last.pre
\* The metrics whose report is a fraction of the elements counted.
UnitFns == {"streaming_precision", "streaming_recall", "streaming_accuracy",
            "streaming_percentage_less", "streaming_auc"}

\* Whether a reported number lies between 0 and 1 inclusive.
InUnit(x) ==
  IF metric.fn = "streaming_auc"
  THEN FNonNegative(x) /\ FNonNegative(FSub(FInt(1), x))
  ELSE x.d > 0 /\ 0 <= x.n /\ x.n <= x.d

\* C34: after any sequence of updates every number that value or update_op
\* of streaming_precision, streaming_recall, streaming_accuracy (weights
\* not negative), streaming_percentage_less and streaming_auc (labels 0 or
\* 1, scores in [0,1]) reports lies between 0 and 1 inclusive.
C34_ReportsInUnitInterval ==
  (metric.fn \in UnitFns /\ last.op \in {"value", "update_op"}) =>
    \A x \in Returned : InUnit(x)
\* What holds of the bound: the value tensor of each of these metrics, and
\* update_op of each but streaming_auc, report a number between 0 and 1.
OrderedReportsInUnitInterval ==
  (/\ metric.fn \in UnitFns
   /\ \/ last.op = "value"
      \/ last.op = "update_op" /\ metric.fn # "streaming_auc") =>
    \A x \in Returned : InUnit(x)
====
